---- MODULE Spec2Model ----
(***************************************************************************)
(* Asset-generation scripts of the Aetherial engine:                       *)
(*   scripts/generate_block_textures.py  (texture batch driver, 2D noise,  *)
(*                                        pattern compositors)             *)
(*   scripts/generate_cloud_noise.py     (3D cloud noise volume, CN3D file)*)
(* Real numbers are modelled in fixed point, in units of 1/Unit.           *)
(***************************************************************************)
EXTENDS Integers, Sequences, FiniteSets, TLC

VARIABLES
    \* ---- texture batch driver (generate_block_textures.py: main) ----
    catalog,      \* BLOCK_TEXTURES: ordered sequence of entries
    files,        \* TEXTURE_DIR: name -> content of <name>.png
    pc,           \* position of the process
    i,            \* index of the catalog entry the loop is at
    generated,    \* main's counter
    skipped,      \* main's counter
    written,      \* names whose file was written by texture.save in this run
    invoked,      \* names for which generate_texture was called in this run
    failedAt,     \* index of the entry whose processing raised (0: none)
    runNo,        \* number of the current run of main()
    startFiles,   \* files when the current run started
    prevOk,       \* the previous run of main() returned normally
    prevCatalog,  \* catalog of the previous run
    \* ---- cloud noise volume (generate_cloud_noise.py) ----
    entry,        \* "main": generate_3d_noise then save; "save": save alone
    size,         \* side of the volume
    byteorder,    \* sys.byteorder of the host running the script
    noise_data,   \* ndarray (size, size, size) of uint8, indexed <<z, y, x>>
    vz, vy, vx,   \* loop variables of generate_3d_noise
    visited,      \* voxels <<x, y, z>> in the order they were assigned
    cpc,          \* position of the process
    outfile,      \* bytes of cloud_noise_3d.bin
    \* ---- perlin_noise_2d (generate_block_textures.py) ----
    width, height,  \* arguments
    scale,        \* argument, in hundredths (30 is 0.3)
    octaves,      \* argument
    octave,       \* loop variable
    noise,        \* the accumulating field, indexed <<y, x>>, fixed point
    result,       \* the returned field: <<y, x>> -> [nan, v]
    npc,          \* position of the process
    \* ---- one pixel of a pattern compositor (generate_block_textures.py) ----
    config,       \* the catalog entry's descriptor
    n_in,         \* noise[y, x] of the primary field
    aux_in,       \* the second field's sample (crack, vein or wave noise)
    grain_in,     \* grain[y, x] of the grainy compositor
    rand_in,      \* random.random() of the crystalline compositor
    out,          \* what the compositor computed for the pixel
    ppc,          \* position of the process
    \* ---- worley_noise_3d (generate_cloud_noise.py) ----
    wx, wy, wz,   \* arguments x, y, z, fixed point
    wd,           \* <<dz, dy, dx>> of the next iteration of the neighbour loops
    min_dist,     \* local min_dist, fixed point
    wout,         \* the returned value, fixed point
    wpc           \* position of the process

batchVars == <<catalog, files, pc, i, generated, skipped, written, invoked,
               failedAt, runNo, startFiles, prevOk, prevCatalog>>

cloudVars == <<entry, size, byteorder, noise_data, vz, vy, vx, visited, cpc,
               outfile>>

noiseVars == <<width, height, scale, octaves, octave, noise, result, npc>>

pixelVars == <<config, n_in, aux_in, grain_in, rand_in, out, ppc>>

worleyVars == <<wx, wy, wz, wd, min_dist, wout, wpc>>

vars == <<batchVars, cloudVars, noiseVars, pixelVars, worleyVars>>

notBatchVars == <<cloudVars, noiseVars, pixelVars, worleyVars>>
notCloudVars == <<batchVars, noiseVars, pixelVars, worleyVars>>
notNoiseVars == <<batchVars, cloudVars, pixelVars, worleyVars>>
notPixelVars == <<batchVars, cloudVars, noiseVars, worleyVars>>
notWorleyVars == <<batchVars, cloudVars, noiseVars, pixelVars>>

(***************************************************************************)
(* Bounds                                                                  *)
(***************************************************************************)
MaxCatalog == 3
MaxRuns == 3
MaxSize == 4
MaxDim == 3
MaxOctaves == 2

(***************************************************************************)
(* Fixed-point arithmetic                                                  *)
(***************************************************************************)
\* A float r is held as the integer r * Unit.
Unit == 1000

Abs(a) == IF a < 0 THEN -a ELSE a
Min2(a, b) == IF a < b THEN a ELSE b
Max2(a, b) == IF a > b THEN a ELSE b

\* np.clip(v, lo, hi)
Clip(v, lo, hi) == IF v < lo THEN lo ELSE IF v > hi THEN hi ELSE v

RECURSIVE SqrtBetween(_, _, _)
SqrtBetween(n, lo, hi) ==
    IF lo >= hi THEN lo
    ELSE LET mid == (lo + hi + 1) \div 2
         IN IF mid * mid <= n THEN SqrtBetween(n, mid, hi)
            ELSE SqrtBetween(n, lo, mid - 1)

\* np.sqrt of a fixed-point square (n is in units of 1/Unit^2), rounded down.
Sqrt(n) == SqrtBetween(n, 0, 6 * Unit)

(***************************************************************************)
(* generate_cloud_noise.py: noise primitives                               *)
(***************************************************************************)
\* The period of sin, in units of 1/Unit radians. Arguments of hash_float are
\* kept modulo this period so that every intermediate stays a machine integer.
TwoPi == 6283
Pi == 3142

\* sin on [0, pi], by Bhaskara's rational approximation, result in 1/Unit.
SinHalf(a) ==
    LET p == (a * (Pi - a)) \div Unit
    IN (16 * Unit * p) \div (((5 * Pi * Pi) \div Unit) - 4 * p)

Sin(a) == IF a < Pi THEN SinHalf(a) ELSE -SinHalf(Min2(a - Pi, Pi))

\* hash_float(x) = abs(sin(x * 12.9898 + 78.233) * 43758.5453) % 1.0
\* x is fixed point; the result is in 0 .. Unit-1, that is in [0, 1).
hash_float(x) ==
    LET angle == ((x % TwoPi) * 13 + 78233) % TwoPi
    IN (Abs(Sin(angle)) * 43758) % Unit

\* a * (1 - t) + b * t
Lerp(a, b, t) == (a * (Unit - t) + b * t) \div Unit

\* f * f * (3.0 - 2.0 * f)
Smoothstep(f) == (((f * f) \div Unit) * (3 * Unit - 2 * f)) \div Unit

\* perlin_noise_3d(x, y, z), coordinates in fixed point
perlin_noise_3d(x, y, z) ==
    LET xi == (x \div Unit) % 256
        yi == (y \div Unit) % 256
        zi == (z \div Unit) % 256
        u == Smoothstep(x % Unit)
        v == Smoothstep(y % Unit)
        w == Smoothstep(z % Unit)
        n000 == hash_float((xi + yi * 57 + zi * 113) * Unit)
        n001 == hash_float((xi + yi * 57 + (zi + 1) * 113) * Unit)
        n010 == hash_float((xi + (yi + 1) * 57 + zi * 113) * Unit)
        n011 == hash_float((xi + (yi + 1) * 57 + (zi + 1) * 113) * Unit)
        n100 == hash_float(((xi + 1) + yi * 57 + zi * 113) * Unit)
        n101 == hash_float(((xi + 1) + yi * 57 + (zi + 1) * 113) * Unit)
        n110 == hash_float(((xi + 1) + (yi + 1) * 57 + zi * 113) * Unit)
        n111 == hash_float(((xi + 1) + (yi + 1) * 57 + (zi + 1) * 113) * Unit)
        nx00 == Lerp(n000, n100, u)
        nx01 == Lerp(n001, n101, u)
        nx10 == Lerp(n010, n110, u)
        nx11 == Lerp(n011, n111, u)
        nxy0 == Lerp(nx00, nx10, v)
        nxy1 == Lerp(nx01, nx11, v)
    IN Lerp(nxy0, nxy1, w)

\* The argument of the cell hash, modulo the period of hash_float:
\* neighbor_x * 374761393.0 + neighbor_y * 668265263.0 + neighbor_z * 1274126177.0
CellHashArg(cx, cy, cz) ==
    (((cx * (374761393 % TwoPi) + cy * (668265263 % TwoPi)
         + cz * (1274126177 % TwoPi)) % TwoPi) * Unit) % TwoPi

\* Distance from the sample to the feature point of one neighbouring cell.
FeatureDist(x, y, z, cx, cy, cz) ==
    LET hash_val == hash_float(CellHashArg(cx, cy, cz))
        feature_x == hash_val
        feature_y == hash_float(hash_val * 2)
        feature_z == hash_float(hash_val * 3)
        diff_x == (cx * Unit + feature_x) - x
        diff_y == (cy * Unit + feature_y) - y
        diff_z == (cz * Unit + feature_z) - z
    IN Sqrt(diff_x * diff_x + diff_y * diff_y + diff_z * diff_z)

SetMin(S) == CHOOSE m \in S : \A e \in S : m <= e

\* The value of min_dist after the 27 iterations, starting from 1.0.
MinDist(x, y, z) ==
    LET cell_x == x \div Unit
        cell_y == y \div Unit
        cell_z == z \div Unit
    IN SetMin({Unit} \cup
              {FeatureDist(x, y, z, cell_x + dx, cell_y + dy, cell_z + dz) :
                   dx \in {-1, 0, 1}, dy \in {-1, 0, 1}, dz \in {-1, 0, 1}})

\* worley_noise_3d(x, y, z) = 1.0 - min_dist
worley_noise_3d(x, y, z) == Unit - MinDist(x, y, z)

\* The body of generate_3d_noise's inner loop: the uint8 stored at [z, y, x].
VoxelValue(n, x, y, z) ==
    LET nx == (x * Unit) \div n
        ny == (y * Unit) \div n
        nz == (z * Unit) \div n
        perlin == perlin_noise_3d(nx * 4, ny * 4, nz * 4)
        worley == worley_noise_3d(nx * 2, ny * 2, nz * 2)
        hybrid == Clip((perlin * 6 + worley * 4) \div 10, 0, Unit)
    IN (hybrid * 255) \div Unit

(***************************************************************************)
(* Texture batch driver                                                    *)
(***************************************************************************)
Names == {"grass", "coal", "iron_block"}

\* The patterns the driver's dispatch distinguishes by the fields they read.
DriverPatterns == {"organic", "metallic", "ore"}

\* A catalog entry: the keys of a BLOCK_TEXTURES value that decide whether
\* generate_texture returns or raises (ore_color may be absent from the dict).
Entries == [name : Names, pattern : DriverPatterns, has_ore_color : BOOLEAN]

Absent == [kind |-> "absent", run |-> 0]
Curated == [kind |-> "curated", run |-> 0]
Partial(r) == [kind |-> "partial", run |-> r]
Png(r) == [kind |-> "png", run |-> r]

\* Mutant of Exists: the existence test looks at a path that is never there.
ExistsWrongPath(f, n) == FALSE

\* output_path.exists()
Exists(f, n) == f[n].kind # "absent"

\* A dict has one value per key: the names of a catalog are distinct.
DistinctNames(c) == \A a, b \in 1..Len(c) : c[a].name = c[b].name => a = b

Catalogs(maxLen) ==
    UNION {{c \in [1..n -> Entries] : DistinctNames(c)} : n \in 1..maxLen}

\* generate_texture: config["ore_color"] raises KeyError when the key is
\* missing and the pattern is metallic or ore; every other pattern (the
\* fallback included) never reads it.
NeedsOreColor(e) == e.pattern \in {"metallic", "ore"}
GenerateTextureRaises(e) == NeedsOreColor(e) /\ ~e.has_ore_color

BatchIdle ==
    /\ catalog = <<>>
    /\ files = [n \in Names |-> Absent]
    /\ pc = "idle"
    /\ i = 0
    /\ generated = 0
    /\ skipped = 0
    /\ written = {}
    /\ invoked = {}
    /\ failedAt = 0
    /\ runNo = 0
    /\ startFiles = [n \in Names |-> Absent]
    /\ prevOk = FALSE
    /\ prevCatalog = <<>>

CloudIdle ==
    /\ entry = "none"
    /\ size = 0
    /\ byteorder = "little"
    /\ noise_data = <<>>
    /\ vz = 0 /\ vy = 0 /\ vx = 0
    /\ visited = <<>>
    /\ cpc = "idle"
    /\ outfile = <<>>

NoiseIdle ==
    /\ width = 0 /\ height = 0
    /\ scale = 0
    /\ octaves = 0
    /\ octave = 0
    /\ noise = <<>>
    /\ result = <<>>
    /\ npc = "idle"

PixelIdle ==
    /\ config = <<>>
    /\ n_in = 0
    /\ aux_in = 0
    /\ grain_in = 0
    /\ rand_in = 0
    /\ out = <<>>
    /\ ppc = "idle"

WorleyIdle ==
    /\ wx = 0 /\ wy = 0 /\ wz = 0
    /\ wd = <<0, 0, 0>>
    /\ min_dist = 0
    /\ wout = 0
    /\ wpc = "idle"

BatchInit ==
    /\ WorleyIdle
    /\ CloudIdle
    /\ NoiseIdle
    /\ PixelIdle
    /\ catalog \in Catalogs(MaxCatalog - 1)
    /\ files \in [Names -> {Absent, Curated}]
    /\ pc = "loop"
    /\ i = 1
    /\ generated = 0
    /\ skipped = 0
    /\ written = {}
    /\ invoked = {}
    /\ failedAt = 0
    /\ runNo = 1
    /\ startFiles = files
    /\ prevOk = FALSE
    /\ prevCatalog = catalog

\* Mutant of SkipExisting: the existing file is counted as skipped but is
\* regenerated and saved over all the same.
SkipExistingOverwrites ==
    /\ pc = "loop"
    /\ i <= Len(catalog)
    /\ files[catalog[i].name].kind # "absent"
    /\ skipped' = skipped + 1
    /\ i' = i + 1
    /\ invoked' = invoked \cup {catalog[i].name}
    /\ files' = [files EXCEPT ![catalog[i].name] = Png(runNo)]
    /\ written' = written \cup {catalog[i].name}
    /\ UNCHANGED <<catalog, pc, generated, failedAt, runNo, startFiles, prevOk,
                   prevCatalog>>
    /\ UNCHANGED notBatchVars

\* Loop body, branch "if output_path.exists(): skipped += 1; continue".
SkipExisting ==
    /\ pc = "loop"
    /\ i <= Len(catalog)
    /\ Exists(files, catalog[i].name)
    /\ skipped' = skipped + 1
    /\ i' = i + 1
    /\ UNCHANGED <<catalog, files, pc, generated, written, invoked, failedAt,
                   runNo, startFiles, prevOk, prevCatalog>>
    /\ UNCHANGED notBatchVars

\* Mutant of GenerateAndSave: "generated += 1" is left out.
GenerateAndSaveUncounted ==
    /\ pc = "loop"
    /\ i <= Len(catalog)
    /\ files[catalog[i].name].kind = "absent"
    /\ ~GenerateTextureRaises(catalog[i])
    /\ invoked' = invoked \cup {catalog[i].name}
    /\ files' = [files EXCEPT ![catalog[i].name] = Png(runNo)]
    /\ written' = written \cup {catalog[i].name}
    /\ i' = i + 1
    /\ UNCHANGED <<catalog, pc, generated, skipped, failedAt, runNo, startFiles,
                   prevOk, prevCatalog>>
    /\ UNCHANGED notBatchVars

\* Loop body: generate_texture returns, texture.save succeeds.
GenerateAndSave ==
    /\ pc = "loop"
    /\ i <= Len(catalog)
    /\ ~Exists(files, catalog[i].name)
    /\ ~GenerateTextureRaises(catalog[i])
    /\ invoked' = invoked \cup {catalog[i].name}
    /\ files' = [files EXCEPT ![catalog[i].name] = Png(runNo)]
    /\ written' = written \cup {catalog[i].name}
    /\ generated' = generated + 1
    /\ i' = i + 1
    /\ UNCHANGED <<catalog, pc, skipped, failedAt, runNo, startFiles, prevOk,
                   prevCatalog>>
    /\ UNCHANGED notBatchVars

\* Loop body: generate_texture raises KeyError; nothing in main catches it,
\* the __main__ guard prints it and exits with status 1.
GenerateRaises ==
    /\ pc = "loop"
    /\ i <= Len(catalog)
    /\ ~Exists(files, catalog[i].name)
    /\ GenerateTextureRaises(catalog[i])
    /\ invoked' = invoked \cup {catalog[i].name}
    /\ failedAt' = i
    /\ pc' = "aborted"
    /\ UNCHANGED <<catalog, files, i, generated, skipped, written, runNo,
                   startFiles, prevOk, prevCatalog>>
    /\ UNCHANGED notBatchVars

\* Loop body: texture.save raises (the encoder or the filesystem fails); the
\* encoder may or may not leave a partly written file behind. Nothing in main
\* catches the exception.
SaveRaises ==
    /\ pc = "loop"
    /\ i <= Len(catalog)
    /\ ~Exists(files, catalog[i].name)
    /\ ~GenerateTextureRaises(catalog[i])
    /\ invoked' = invoked \cup {catalog[i].name}
    /\ \E leaves \in BOOLEAN :
          files' = IF leaves
                   THEN [files EXCEPT ![catalog[i].name] = Partial(runNo)]
                   ELSE files
    /\ failedAt' = i
    /\ pc' = "aborted"
    /\ UNCHANGED <<catalog, i, generated, skipped, written, runNo, startFiles,
                   prevOk, prevCatalog>>
    /\ UNCHANGED notBatchVars

\* The for loop is exhausted: the summary is printed and main returns.
Complete ==
    /\ pc = "loop"
    /\ i > Len(catalog)
    /\ pc' = "done"
    /\ UNCHANGED <<catalog, files, i, generated, skipped, written, invoked,
                   failedAt, runNo, startFiles, prevOk, prevCatalog>>
    /\ UNCHANGED notBatchVars

\* The script is started again against the same directory.
RunAgain ==
    /\ pc \in {"done", "aborted"}
    /\ runNo < MaxRuns
    /\ runNo' = runNo + 1
    /\ prevOk' = (pc = "done")
    /\ prevCatalog' = IF pc = "done" THEN catalog ELSE prevCatalog
    /\ startFiles' = files
    /\ pc' = "loop"
    /\ i' = 1
    /\ generated' = 0
    /\ skipped' = 0
    /\ written' = {}
    /\ invoked' = {}
    /\ failedAt' = 0
    /\ UNCHANGED <<catalog, files>>
    /\ UNCHANGED notBatchVars

\* A new material is inserted at the end of BLOCK_TEXTURES and the script is
\* started again.
AddMaterialAndRun ==
    /\ pc = "done"
    /\ runNo < MaxRuns
    /\ Len(catalog) < MaxCatalog
    /\ \E e \in Entries :
          /\ \A k \in 1..Len(catalog) : catalog[k].name # e.name
          /\ catalog' = Append(catalog, e)
    /\ runNo' = runNo + 1
    /\ prevOk' = TRUE
    /\ prevCatalog' = catalog
    /\ startFiles' = files
    /\ pc' = "loop"
    /\ i' = 1
    /\ generated' = 0
    /\ skipped' = 0
    /\ written' = {}
    /\ invoked' = {}
    /\ failedAt' = 0
    /\ UNCHANGED files
    /\ UNCHANGED notBatchVars



BatchNext ==
    \/ SkipExisting
    \/ GenerateAndSave
    \/ GenerateRaises
    \/ SaveRaises
    \/ Complete
    \/ RunAgain
    \/ AddMaterialAndRun

SpecBatch == BatchInit /\ [][BatchNext]_vars

(***************************************************************************)
(* generate_cloud_noise.py: generate_3d_noise, save_binary_texture         *)
(***************************************************************************)
Voxels(n) == {<<z, y, x>> : z \in 0..(n - 1), y \in 0..(n - 1), x \in 0..(n - 1)}

\* np.zeros((size, size, size), dtype=np.uint8)
Zeros(n) == [v \in Voxels(n) |-> 0]

\* Volumes handed to save_binary_texture directly.
TestVolumes(n) ==
    {Zeros(n), [v \in Voxels(n) |-> (7 + v[3] + 3 * v[2] + 11 * v[1]) % 256]}

\* total_voxels // 20
ProgressInterval(n) == (n * n * n) \div 20

\* Mutant of Tobytes: the array is flattened x-major (Fortran order).
TobytesColumnMajor(data, n) ==
    [k \in 1..(n * n * n) |->
        data[<<(k - 1) % n, ((k - 1) \div n) % n, (k - 1) \div (n * n)>>]]

\* data.tobytes(): the array flattened in C order, last index fastest.
Tobytes(data, n) ==
    [k \in 1..(n * n * n) |->
        data[<<(k - 1) \div (n * n), ((k - 1) \div n) % n, (k - 1) % n>>]]

LittleEndian32(n) ==
    <<n % 256, (n \div 256) % 256, (n \div 65536) % 256, (n \div 16777216) % 256>>

BigEndian32(n) ==
    <<(n \div 16777216) % 256, (n \div 65536) % 256, (n \div 256) % 256, n % 256>>

\* struct.pack('I', size): no byte-order prefix, so native size and native
\* byte order of the host.
PackI(n, order) == IF order = "little" THEN LittleEndian32(n) ELSE BigEndian32(n)

\* b'CN3D'
Magic == <<67, 78, 51, 68>>

\* The bytes save_binary_texture writes, in order.
FileBytes(data, n, order) == Magic \o PackI(n, order) \o Tobytes(data, n)

CloudInit ==
    /\ WorleyIdle
    /\ BatchIdle
    /\ NoiseIdle
    /\ PixelIdle
    /\ entry \in {"main", "save"}
    /\ size \in 1..MaxSize
    /\ byteorder \in {"little", "big"}
    /\ noise_data \in (IF entry = "main" THEN {Zeros(size)} ELSE TestVolumes(size))
    /\ vz = 0 /\ vy = 0 /\ vx = 0
    /\ visited = <<>>
    /\ cpc = IF entry = "main" THEN "gen" ELSE "generated"
    /\ outfile = <<>>

\* One iteration of the innermost loop of generate_3d_noise (z outermost, then
\* y, then x); after the last one the function returns.
VoxelStep ==
    /\ cpc = "gen"
    /\ ProgressInterval(size) # 0
    /\ noise_data' = [noise_data EXCEPT ![<<vz, vy, vx>>] = VoxelValue(size, vx, vy, vz)]
    /\ visited' = Append(visited, <<vx, vy, vz>>)
    /\ IF vx + 1 < size
       THEN vx' = vx + 1 /\ UNCHANGED <<vy, vz, cpc>>
       ELSE /\ vx' = 0
            /\ IF vy + 1 < size
               THEN vy' = vy + 1 /\ UNCHANGED <<vz, cpc>>
               ELSE /\ vy' = 0
                    /\ IF vz + 1 < size
                       THEN vz' = vz + 1 /\ UNCHANGED cpc
                       ELSE vz' = vz /\ cpc' = "generated"
    /\ UNCHANGED <<entry, size, byteorder, outfile>>
    /\ UNCHANGED notCloudVars

\* "idx % progress_interval" with progress_interval = 0 raises
\* ZeroDivisionError at the first voxel.
ProgressRaises ==
    /\ cpc = "gen"
    /\ ProgressInterval(size) = 0
    /\ cpc' = "error"
    /\ UNCHANGED <<entry, size, byteorder, noise_data, vz, vy, vx, visited, outfile>>
    /\ UNCHANGED notCloudVars

\* save_binary_texture(data, output_path)
SaveBinaryTexture ==
    /\ cpc = "generated"
    /\ outfile' = FileBytes(noise_data, size, byteorder)
    /\ cpc' = "saved"
    /\ UNCHANGED <<entry, size, byteorder, noise_data, vz, vy, vx, visited>>
    /\ UNCHANGED notCloudVars

\* A reader of the binary volume file, as the format's consumers are to
\* behave: the magic and the declared size (little-endian uint32) are checked
\* against the bytes that follow. A declared size above 1024 has a cube above
\* 2^30, more than any file here holds, and is refused before it is cubed.
ReadVolume(bytes) ==
    IF Len(bytes) < 8 \/ SubSeq(bytes, 1, 4) # Magic
    THEN [ok |-> FALSE, size |-> 0, payload |-> <<>>]
    ELSE LET n == bytes[5] + 256 * bytes[6] + 65536 * bytes[7]
                     + 16777216 * (bytes[8] % 128)
             rest == Len(bytes) - 8
         IN IF bytes[8] >= 128 \/ n > 1024 \/ n * n * n # rest
            THEN [ok |-> FALSE, size |-> 0, payload |-> <<>>]
            ELSE [ok |-> TRUE, size |-> n, payload |-> SubSeq(bytes, 9, Len(bytes))]

\* The stored file is damaged: a byte of the magic is changed, the last byte
\* is lost, or a byte is added.
DamageFile ==
    /\ cpc = "saved"
    /\ \E how \in {"magic", "truncate", "pad"} :
          outfile' = CASE how = "magic" -> [outfile EXCEPT ![1] = 88]
                       [] how = "truncate" -> SubSeq(outfile, 1, Len(outfile) - 1)
                       [] how = "pad" -> Append(outfile, 0)
    /\ cpc' = "damaged"
    /\ UNCHANGED <<entry, size, byteorder, noise_data, vz, vy, vx, visited>>
    /\ UNCHANGED notCloudVars

CloudNext ==
    \/ VoxelStep
    \/ ProgressRaises
    \/ SaveBinaryTexture
    \/ DamageFile

SpecCloud == CloudInit /\ [][CloudNext]_vars

(***************************************************************************)
(* Claims about the cloud noise volume                                     *)
(***************************************************************************)

\* C5: the file save_binary_texture writes is 4 + 4 + size^3 bytes long:
\* 'CN3D', then size as a 4-byte little-endian unsigned integer, then the
\* size^3 payload bytes (72 bytes for size 4).
C5_FileLayoutLittleEndian ==
    cpc = "saved" =>
        /\ Len(outfile) = 4 + 4 + size * size * size
        /\ SubSeq(outfile, 1, 4) = <<67, 78, 51, 68>>
        /\ SubSeq(outfile, 5, 8) = LittleEndian32(size)
        /\ (size = 4 => Len(outfile) = 72)

\* C6: the payload byte at offset x + y*size + z*size^2 (file offset 8 + that)
\* is the intensity computed for voxel (x, y, z), and the voxels are generated
\* with z outermost, then y, then x.
C6_PayloadZMajor ==
    /\ (cpc = "saved" /\ entry = "main") =>
          \A x \in 0..(size - 1), y \in 0..(size - 1), z \in 0..(size - 1) :
              outfile[8 + x + y * size + z * size * size + 1]
                  = VoxelValue(size, x, y, z)
    /\ \A k \in 1..Len(visited) :
          visited[k] = <<(k - 1) % size, ((k - 1) \div size) % size,
                         (k - 1) \div (size * size)>>

\* C6 witness: a generated volume has been saved and its voxels differ along
\* each axis, so the order is visible in the file.
C6_Witness ==
    /\ cpc = "saved" /\ entry = "main"
    /\ Len(visited) = size * size * size
    /\ noise_data[<<0, 0, 1>>] # noise_data[<<1, 0, 0>>]
    /\ noise_data[<<0, 1, 0>>] # noise_data[<<1, 0, 0>>]

\* C7: a saved volume read back gives the same size and the same bytes in the
\* same order, and a file whose magic or length is wrong is rejected.
C7_RoundTripAndReject ==
    /\ cpc = "saved" =>
          ReadVolume(outfile) =
              [ok |-> TRUE, size |-> size, payload |-> Tobytes(noise_data, size)]
    /\ cpc = "damaged" => ~ReadVolume(outfile).ok

(***************************************************************************)
(* generate_block_textures.py: perlin_noise_2d                             *)
(***************************************************************************)
\* cos on [0, pi), from Sin: cos(a) = sin(a + pi/2)
Cos(a) == Sin(a + Pi \div 2)

\* interpolate(a, b, x): ft = x * pi; f = (1 - cos(ft)) * 0.5;
\* a * (1 - f) + b * f
interpolate(a, b, x) ==
    LET ft == (x * Pi) \div Unit
        f == (Unit - Cos(ft)) \div 2
    IN (a * (Unit - f) + b * f) \div Unit

RECURSIVE Pow2(_)
Pow2(k) == IF k = 0 THEN 1 ELSE 2 * Pow2(k - 1)

\* grid_size = max(2, int(width / (10 * scale * freq))), scale in hundredths
GridSize(w, sc, oct) == Max2(2, (w * 10) \div (sc * Pow2(oct)))

\* Values np.random.rand(...) * 2 - 1 may take, in [-1, 1).
GradVals == {-Unit, 0, 600}

\* The gradient arrays drawn: (g + 2) x (g + 2) arrays, constant or
\* alternating along rows, columns or diagonals.
GradientFields(g) ==
    {[rc \in (0..(g + 1)) \X (0..(g + 1)) |->
         IF (rc[1] * pq[1] + rc[2] * pq[2]) % 2 = 0 THEN a ELSE b] :
         a \in GradVals, b \in GradVals, pq \in {<<1, 0>>, <<0, 1>>, <<1, 1>>}}

\* Mutant of SampleIndices: grid_y is scaled by width, as grid_size is.
SampleIndicesByWidth(w, h, g, x, y) ==
    LET grid_x == (x * g * Unit) \div w
        grid_y == (y * g * Unit) \div w
        x0 == grid_x \div Unit
        y0 == grid_y \div Unit
    IN <<<<y0, x0>>, <<y0, x0 + 1>>, <<y0 + 1, x0>>, <<y0 + 1, x0 + 1>>>>

\* The four gradient indices of pixel (x, y): <<y0, x0>>, ..., <<y1, x1>>.
SampleIndices(w, h, g, x, y) ==
    LET grid_x == (x * g * Unit) \div w
        grid_y == (y * g * Unit) \div h
        x0 == grid_x \div Unit
        y0 == grid_y \div Unit
    IN <<<<y0, x0>>, <<y0, x0 + 1>>, <<y0 + 1, x0>>, <<y0 + 1, x0 + 1>>>>

\* The body of the pixel loop: the value added to noise[y, x], before amp.
Sample(gradients, w, h, g, x, y) ==
    LET grid_x == (x * g * Unit) \div w
        grid_y == (y * g * Unit) \div h
        sx == grid_x % Unit
        sy == grid_y % Unit
        ix == SampleIndices(w, h, g, x, y)
        ix0 == interpolate(gradients[ix[1]], gradients[ix[2]], sx)
        ix1 == interpolate(gradients[ix[3]], gradients[ix[4]], sx)
    IN interpolate(ix0, ix1, sy)

Pixels(w, h) == (0..(h - 1)) \X (0..(w - 1))

SetMax(S) == CHOOSE m \in S : \A e \in S : m >= e

\* noise = (noise - noise.min()) / (noise.max() - noise.min()): numpy divides
\* 0.0 by 0.0 into nan (with a warning, no exception) when max equals min.
Normalize(field) ==
    LET vals == {field[p] : p \in DOMAIN field}
        lo == SetMin(vals)
        hi == SetMax(vals)
    IN [p \in DOMAIN field |->
          IF hi = lo THEN [nan |-> TRUE, v |-> 0]
          ELSE [nan |-> FALSE, v |-> ((field[p] - lo) * Unit) \div (hi - lo)]]

\* noise_scale values: 0.05, 0.3 and 5.0
Scales == {5, 30, 500}

NoiseInit ==
    /\ WorleyIdle
    /\ BatchIdle
    /\ CloudIdle
    /\ PixelIdle
    /\ width \in 1..MaxDim
    /\ height \in 1..MaxDim
    /\ scale \in Scales
    /\ octaves \in 1..MaxOctaves
    /\ octave = 0
    /\ noise = [p \in Pixels(width, height) |-> 0]
    /\ result = <<>>
    /\ npc = "octaves"

\* One pass of "for octave in range(octaves)": the gradient array is drawn and
\* every pixel's sample, weighted by amp = 1 / 2^octave, is accumulated.
OctavePass ==
    /\ npc = "octaves"
    /\ octave < octaves
    /\ LET g == GridSize(width, scale, octave)
       IN \E gradients \in GradientFields(g) :
             IF \A p \in Pixels(width, height) :
                   \A k \in 1..4 :
                       SampleIndices(width, height, g, p[2], p[1])[k]
                           \in DOMAIN gradients
             THEN /\ noise' = [p \in Pixels(width, height) |->
                                  noise[p] + Sample(gradients, width, height, g,
                                                    p[2], p[1]) \div Pow2(octave)]
                  /\ octave' = octave + 1
                  /\ npc' = npc
             ELSE /\ npc' = "IndexError"
                  /\ UNCHANGED <<noise, octave>>
    /\ UNCHANGED <<width, height, scale, octaves, result>>
    /\ UNCHANGED notNoiseVars

\* After the last octave: normalize and return.
NormalizeAndReturn ==
    /\ npc = "octaves"
    /\ octave = octaves
    /\ result' = Normalize(noise)
    /\ npc' = "returned"
    /\ UNCHANGED <<width, height, scale, octaves, octave, noise>>
    /\ UNCHANGED notNoiseVars

NoiseNext ==
    \/ OctavePass
    \/ NormalizeAndReturn

SpecNoise == NoiseInit /\ [][NoiseNext]_vars

(***************************************************************************)
(* Claims about perlin_noise_2d                                            *)
(***************************************************************************)

\* C8: every value of the returned field lies in [0, 1]; when the accumulated
\* field is flat (max = min) the result is still a defined field of numbers.
C8_NoiseWithinUnitInterval ==
    npc = "returned" =>
        \A p \in DOMAIN result :
            /\ ~result[p].nan
            /\ 0 <= result[p].v
            /\ result[p].v <= Unit

(***************************************************************************)
(* generate_block_textures.py: pattern compositors, one pixel              *)
(***************************************************************************)
\* int(np.clip(v, 0, 255)) of a fixed-point v
ToByte(v) == Clip(v, 0, 255 * Unit) \div Unit

\* What a compositor computed for one pixel: the colour written, the colour
\* (already scaled by brightness or darkness) the variation term was added to,
\* the noise value n the term was computed from and whether a term was added.
PixelOut(kind, shade, n, term, varies) ==
    [kind |-> kind,
     rgb |-> [c \in 1..3 |-> ToByte(shade[c] + term)],
     shade |-> shade,
     n |-> n,
     varies |-> varies]

\* generate_organic_pattern: base_color[c] + (n - 0.5) * variation * 2
OrganicPixel(base_color, variation, n) ==
    PixelOut("organic", [c \in 1..3 |-> base_color[c] * Unit], n,
             (n - Unit \div 2) * variation * 2, TRUE)

\* generate_rocky_pattern: darkness 0.3 where crack > 0.85, else 1.0
RockyPixel(base_color, variation, n, crack) ==
    LET darkness == IF crack > 850 THEN 300 ELSE Unit
    IN PixelOut("rocky", [c \in 1..3 |-> base_color[c] * darkness], n,
                (n - Unit \div 2) * variation * 2, TRUE)

\* generate_grainy_pattern: n = noise[y, x] + grain[y, x]
GrainyPixel(base_color, variation, n0, grain) ==
    LET n == n0 + grain
    IN PixelOut("grainy", [c \in 1..3 |-> base_color[c] * Unit], n,
                (n - Unit \div 2) * variation * 2, TRUE)

\* Mutant of CrystallinePixel: the sparkle flag is not consulted, the random
\* draw alone decides.
CrystallinePixelAlwaysSparkles(base_color, n, sparkle, rnd) ==
    LET tier == IF n > 700 THEN 1300 ELSE IF n > 400 THEN Unit ELSE 800
        brightness == IF rnd > 950 THEN 1800 ELSE tier
    IN PixelOut("crystalline", [c \in 1..3 |-> base_color[c] * brightness], n,
                0, FALSE)

\* generate_crystalline_pattern: three tiers, and 1.8 when sparkle is set and
\* random.random() > 0.95; no variation term
CrystallinePixel(base_color, n, sparkle, rnd) ==
    LET tier == IF n > 700 THEN 1300 ELSE IF n > 400 THEN Unit ELSE 800
        brightness == IF sparkle /\ rnd > 950 THEN 1800 ELSE tier
    IN PixelOut("crystalline", [c \in 1..3 |-> base_color[c] * brightness], n,
                0, FALSE)

\* generate_metallic_pattern: ore colour in the veins (vein > 0.6), elsewhere
\* base_color[c] * brightness + (n - 0.5) * variation
MetallicPixel(base_color, variation, ore_color, n, vein) ==
    LET brightness == IF n > 600 THEN 1200 ELSE 900
    IN IF vein > 600
       THEN PixelOut("metallic", [c \in 1..3 |-> ore_color[c] * brightness], n,
                     0, FALSE)
       ELSE PixelOut("metallic", [c \in 1..3 |-> base_color[c] * brightness], n,
                     (n - Unit \div 2) * variation, TRUE)

\* Mutant of OrePixel: the colour is taken from base_color.
OrePixelFromBase(base_color, variation, ore_color, n) ==
    PixelOut("ore", [c \in 1..3 |-> base_color[c] * Unit], n,
             (n - Unit \div 2) * variation * 2, TRUE)

\* generate_ore_pattern: ore_color[c] + (n - 0.5) * variation * 2
OrePixel(base_color, variation, ore_color, n) ==
    PixelOut("ore", [c \in 1..3 |-> ore_color[c] * Unit], n,
             (n - Unit \div 2) * variation * 2, TRUE)

\* generate_fluid_pattern: brightness 0.8 + wave * 0.5 + n * 0.3 with glow,
\* 0.9 + wave * 0.3 without; base_color[c] * brightness + (n - 0.5) * variation
FluidPixel(base_color, variation, n, wave, glow) ==
    LET brightness == IF glow
                      THEN 800 + (wave * 5) \div 10 + (n * 3) \div 10
                      ELSE 900 + (wave * 3) \div 10
    IN PixelOut("fluid", [c \in 1..3 |-> base_color[c] * brightness], n,
                (n - Unit \div 2) * variation, TRUE)

Patterns == {"organic", "rocky", "grainy", "crystalline", "metallic", "ore",
             "fluid", "marble"}

BaseColors == {<<30, 30, 30>>, <<200, 120, 255>>}
OreColors == {<<10, 10, 10>>, <<250, 128, 0>>}
Variations == {0, 15, 30}

\* Values of a normalized noise field, in [0, 1].
NoiseVals == {0, 250, 400, 500, 650, 700, 1000}
AuxVals == {0, 700, 900}
\* np.random.rand(...) * 0.2
GrainVals == {0, 199}
\* random.random()
RandVals == {0, 960}

Configs ==
    [pattern : Patterns, base_color : BaseColors, variation : Variations,
     has_ore_color : BOOLEAN, ore_color : OreColors,
     sparkle : BOOLEAN, glow : BOOLEAN]

PixelInit ==
    /\ WorleyIdle
    /\ BatchIdle
    /\ CloudIdle
    /\ NoiseIdle
    /\ config \in Configs
    /\ n_in \in NoiseVals
    /\ aux_in \in AuxVals
    /\ grain_in \in GrainVals
    /\ rand_in \in RandVals
    /\ out = <<>>
    /\ ppc = "ready"

PixelFrame ==
    /\ UNCHANGED <<config, n_in, aux_in, grain_in, rand_in>>
    /\ UNCHANGED notPixelVars

\* generate_texture, branch by branch, for one pixel of the image.
ComposeOrganic ==
    /\ ppc = "ready" /\ config.pattern = "organic"
    /\ out' = OrganicPixel(config.base_color, config.variation, n_in)
    /\ ppc' = "done"
    /\ PixelFrame

ComposeRocky ==
    /\ ppc = "ready" /\ config.pattern = "rocky"
    /\ out' = RockyPixel(config.base_color, config.variation, n_in, aux_in)
    /\ ppc' = "done"
    /\ PixelFrame

ComposeGrainy ==
    /\ ppc = "ready" /\ config.pattern = "grainy"
    /\ out' = GrainyPixel(config.base_color, config.variation, n_in, grain_in)
    /\ ppc' = "done"
    /\ PixelFrame

ComposeCrystalline ==
    /\ ppc = "ready" /\ config.pattern = "crystalline"
    /\ out' = CrystallinePixel(config.base_color, n_in, config.sparkle, rand_in)
    /\ ppc' = "done"
    /\ PixelFrame

ComposeMetallic ==
    /\ ppc = "ready" /\ config.pattern = "metallic"
    /\ ~GenerateTextureRaises(config)
    /\ out' = MetallicPixel(config.base_color, config.variation,
                            config.ore_color, n_in, aux_in)
    /\ ppc' = "done"
    /\ PixelFrame

ComposeOre ==
    /\ ppc = "ready" /\ config.pattern = "ore"
    /\ ~GenerateTextureRaises(config)
    /\ out' = OrePixel(config.base_color, config.variation, config.ore_color,
                       n_in)
    /\ ppc' = "done"
    /\ PixelFrame

ComposeFluid ==
    /\ ppc = "ready" /\ config.pattern = "fluid"
    /\ out' = FluidPixel(config.base_color, config.variation, n_in, aux_in,
                         config.glow)
    /\ ppc' = "done"
    /\ PixelFrame

\* else: "Default to organic"
ComposeDefault ==
    /\ ppc = "ready" /\ config.pattern \notin (Patterns \ {"marble"})
    /\ out' = OrganicPixel(config.base_color, config.variation, n_in)
    /\ ppc' = "done"
    /\ PixelFrame

\* config["ore_color"] raises KeyError
ComposeRaises ==
    /\ ppc = "ready"
    /\ GenerateTextureRaises(config)
    /\ ppc' = "KeyError"
    /\ UNCHANGED out
    /\ PixelFrame

PixelNext ==
    \/ ComposeOrganic
    \/ ComposeRocky
    \/ ComposeGrainy
    \/ ComposeCrystalline
    \/ ComposeMetallic
    \/ ComposeOre
    \/ ComposeFluid
    \/ ComposeDefault
    \/ ComposeRaises

SpecPixel == PixelInit /\ [][PixelNext]_vars

(***************************************************************************)
(* Claims about the pattern compositors                                    *)
(***************************************************************************)

\* C9: every compositor that adds a noise-variation term adds exactly
\* (n - 0.5) * variation * 2 to the scaled colour before clamping to [0, 255].
C9_VariationTermIsDoubled ==
    (ppc = "done" /\ out.varies) =>
        \A c \in 1..3 :
            out.rgb[c] =
                ToByte(out.shade[c] + (out.n - Unit \div 2) * config.variation * 2)

\* C10: each channel of an ore pixel lies within
\* [max(0, ore_color - variation), min(255, ore_color + variation)], and the
\* pixel is the same whatever base_color is.
C10_OreWithinVariationOfOreColor ==
    (ppc = "done" /\ config.pattern = "ore") =>
        /\ \A c \in 1..3 :
              /\ out.rgb[c] >= Max2(0, config.ore_color[c] - config.variation)
              /\ out.rgb[c] <= Min2(255, config.ore_color[c] + config.variation)
        /\ \A other \in BaseColors :
              OrePixel(other, config.variation, config.ore_color, n_in).rgb
                  = out.rgb

\* C10 witness: an ore pixel was composed with a variation that moves it off
\* the ore colour, for a base colour far from the ore colour.
C10_Witness ==
    /\ ppc = "done" /\ config.pattern = "ore"
    /\ config.variation = 15
    /\ config.ore_color = <<10, 10, 10>>
    /\ config.base_color = <<30, 30, 30>>
    /\ out.rgb = <<25, 25, 25>>

(***************************************************************************)
(* Claims about the texture batch driver                                   *)
(***************************************************************************)

\* C1: when main() has run to completion and is run again against the same
\* directory (and the same catalog), the second run writes no file and the
\* directory stays what the first run left.
C1_SecondRunWritesNothing ==
    (runNo >= 2 /\ prevOk /\ catalog = prevCatalog) =>
        /\ written = {}
        /\ generated = 0
        /\ files = startFiles

\* C1 witness: a second run has finished after a first run that wrote a file.
C1_Witness ==
    /\ runNo = 2 /\ prevOk /\ catalog = prevCatalog /\ pc = "done"
    /\ skipped = Len(catalog)
    /\ \E n \in Names : files[n] = Png(1)

\* C2: a file that exists when the run starts is never written and no
\* compositor is invoked for it; after one material is added to a catalog
\* whose run completed, the re-run writes at most that material's file.
C2_ExistingOutputsUntouched ==
    /\ \A n \in Names :
          startFiles[n].kind # "absent" =>
              /\ files[n] = startFiles[n]
              /\ n \notin written
              /\ n \notin invoked
    /\ (/\ prevOk
        /\ Len(catalog) = Len(prevCatalog) + 1
        /\ SubSeq(catalog, 1, Len(prevCatalog)) = prevCatalog)
           => written \subseteq {catalog[Len(catalog)].name}

\* C2 witness: the re-run after adding a material has written exactly the new
\* material's file, next to files of the earlier run it skipped.
C2_Witness ==
    /\ prevOk /\ pc = "done"
    /\ Len(catalog) = Len(prevCatalog) + 1
    /\ written = {catalog[Len(catalog)].name}
    /\ skipped = Len(prevCatalog)
    /\ \E n \in Names : files[n] = Png(1)

\* C3: a failure while generating or saving one entry does not abort the
\* batch: when the run has ended, every entry after the failing one has been
\* processed (generated or skipped).
C3_FailureDoesNotAbortBatch ==
    pc \in {"done", "aborted"} =>
        \A k \in (failedAt + 1)..Len(catalog) : k < i

\* C4: a catalog holding a metallic or ore entry without ore_color is
\* rejected before any texture is generated or written.
C4_DefectiveCatalogRejectedFirst ==
    (\E k \in 1..Len(catalog) : GenerateTextureRaises(catalog[k])) =>
        /\ written = {}
        /\ generated = 0

(***************************************************************************)
(* Claims about the crystalline compositor                                 *)
(***************************************************************************)

\* C11: with sparkle = false every crystalline pixel is the base colour times
\* one of the three tiers, 1.3 for n > 0.7, 1.0 for 0.4 < n <= 0.7 and 0.8 for
\* n <= 0.4, whatever random.random() returned; a pixel at 1.8 times the base
\* colour occurs only with sparkle = true.
C11_NoSparkleOnlyThreeTiers ==
    (ppc = "done" /\ config.pattern = "crystalline") =>
        /\ ~config.sparkle =>
              \A c \in 1..3 :
                  out.shade[c] =
                      config.base_color[c] *
                          (CASE n_in > 700 -> 1300
                             [] n_in > 400 /\ n_in <= 700 -> 1000
                             [] n_in <= 400 -> 800)
        /\ (\E c \in 1..3 : out.shade[c] = config.base_color[c] * 1800)
              => config.sparkle

\* C11 witness: a crystalline pixel was composed without the sparkle flag
\* while the random draw was above 0.95.
C11_Witness ==
    /\ ppc = "done" /\ config.pattern = "crystalline"
    /\ ~config.sparkle
    /\ rand_in > 950
    /\ n_in > 700
    /\ out.rgb = <<39, 39, 39>>

(***************************************************************************)
(* generate_cloud_noise.py: worley_noise_3d, step by step                  *)
(***************************************************************************)
\* Sample coordinates: generate_3d_noise passes nx * 2.0, in [0, 2); one
\* coordinate below and one above that range are included.
WorleyCoords == {-300, 0, 250, 999, 1000, 1500, 1999, 5400}

\* Mutant of MinDistUpdate: the distance of the last cell overwrites min_dist.
MinDistUpdateOverwrites(m, dist) == dist

\* min_dist = min(min_dist, dist)
MinDistUpdate(m, dist) == Min2(m, dist)

WorleyInit ==
    /\ BatchIdle
    /\ CloudIdle
    /\ NoiseIdle
    /\ PixelIdle
    /\ wx \in WorleyCoords
    /\ wy \in WorleyCoords
    /\ wz \in WorleyCoords
    /\ wd = <<-1, -1, -1>>
    /\ min_dist = Unit
    /\ wout = 0
    /\ wpc = "cells"

\* One iteration of "for dz ... for dy ... for dx": the distance to the
\* feature point of cell (cell_x + dx, cell_y + dy, cell_z + dz).
WorleyCell ==
    /\ wpc = "cells"
    /\ LET dz == wd[1]
           dy == wd[2]
           dx == wd[3]
           dist == FeatureDist(wx, wy, wz, (wx \div Unit) + dx,
                               (wy \div Unit) + dy, (wz \div Unit) + dz)
       IN /\ min_dist' = MinDistUpdate(min_dist, dist)
          /\ IF dx < 1 THEN wd' = <<dz, dy, dx + 1>> /\ wpc' = wpc
             ELSE IF dy < 1 THEN wd' = <<dz, dy + 1, -1>> /\ wpc' = wpc
             ELSE IF dz < 1 THEN wd' = <<dz + 1, -1, -1>> /\ wpc' = wpc
             ELSE wd' = wd /\ wpc' = "return"
    /\ UNCHANGED <<wx, wy, wz, wout>>
    /\ UNCHANGED notWorleyVars

\* return 1.0 - min_dist
WorleyReturn ==
    /\ wpc = "return"
    /\ wout' = Unit - min_dist
    /\ wpc' = "returned"
    /\ UNCHANGED <<wx, wy, wz, wd, min_dist>>
    /\ UNCHANGED notWorleyVars

WorleyNext ==
    \/ WorleyCell
    \/ WorleyReturn

SpecWorley == WorleyInit /\ [][WorleyNext]_vars

\* C12: min_dist stays between 0 and 1 through the 27 iterations, so the
\* value worley_noise_3d returns, 1 - min_dist, is between 0 and 1.
C12_WorleyWithinUnitInterval ==
    /\ wpc \in {"cells", "return", "returned"} =>
          (0 <= min_dist /\ min_dist <= Unit)
    /\ wpc = "returned" =>
          (0 <= wout /\ wout <= Unit /\ wout = Unit - min_dist)

\* C12 witness: the function returned after a cell farther than 1 was seen
\* last and a nearer one had lowered min_dist below 1.
C12_Witness ==
    /\ wpc = "returned"
    /\ 0 < wout /\ wout < Unit
    /\ FeatureDist(wx, wy, wz, (wx \div Unit) + 1, (wy \div Unit) + 1,
                   (wz \div Unit) + 1) > Unit

\* The loop computes what worley_noise_3d, used by VoxelValue, computes.
WorleyLoopAgrees ==
    wpc = "returned" => wout = worley_noise_3d(wx, wy, wz)

(***************************************************************************)
(* Claims about the batch driver's counters                                *)
(***************************************************************************)

\* C13: throughout the loop generated + skipped is the number of entries
\* processed so far, generated is the number of files written in this run and
\* skipped the number of processed entries whose file already existed; when
\* main() returns normally generated + skipped is the size of the catalog.
C13_CountersMatchProgress ==
    pc \in {"loop", "done", "aborted"} =>
        /\ generated + skipped = i - 1
        /\ generated = Cardinality(written)
        /\ skipped = Cardinality({k \in 1..(i - 1) :
                                     startFiles[catalog[k].name].kind # "absent"})
        /\ (pc = "done" => generated + skipped = Len(catalog))

\* C13 witness: a run has returned after generating some entries and
\* skipping others.
C13_Witness ==
    /\ pc = "done"
    /\ generated >= 1
    /\ skipped >= 1
    /\ generated + skipped = Len(catalog)

(***************************************************************************)
(* Claims about generate_3d_noise                                          *)
(***************************************************************************)

\* C14: for every size >= 1 generate_3d_noise returns normally, the progress
\* step (idx % (total_voxels // 20)) included, after assigning each of the
\* size^3 voxels exactly once.
C14_GenerateTerminatesNormally ==
    entry = "main" =>
        /\ cpc # "error"
        /\ \A a, b \in 1..Len(visited) : visited[a] = visited[b] => a = b
        /\ cpc \in {"generated", "saved", "damaged"} =>
              Len(visited) = size * size * size

(***************************************************************************)
(* Claims about the gradient grid of perlin_noise_2d                       *)
(***************************************************************************)

\* C15: in every octave pass, for every pixel (x, y) of the width x height
\* field, the four gradient indices (y0, x0), (y0, x1), (y1, x0), (y1, x1)
\* lie within the (grid_size + 2) x (grid_size + 2) array, where
\* grid_size = max(2, int(width / (10 * scale * 2^octave))) serves both axes,
\* also when height differs from width; no pass raises IndexError.
C15_GradientIndicesInRange ==
    /\ npc # "IndexError"
    /\ npc \in {"octaves", "returned"} =>
          \A oct \in 0..(octave - 1) :
              LET grid_size == Max2(2, (width * 10) \div (scale * Pow2(oct)))
              IN \A x \in 0..(width - 1), y \in 0..(height - 1) :
                    \A k \in 1..4 :
                        LET ix == SampleIndices(width, height, grid_size, x, y)[k]
                        IN /\ 0 <= ix[1] /\ ix[1] <= grid_size + 1
                           /\ 0 <= ix[2] /\ ix[2] <= grid_size + 1

\* C15 witness: two octave passes have run over a field taller than wide,
\* with a grid larger than the minimum in the first pass.
C15_Witness ==
    /\ npc = "returned"
    /\ octave = 2
    /\ height > width
    /\ GridSize(width, scale, 0) > 2

====
